---- MODULE Spec2Model ----
(***************************************************************************)
(* The process-wide logging facade of package logger (a wrapper around the *)
(* zap engine): the facade state (logger, sugar, currentEnv), the          *)
(* configuration functions and every public operation.  Each public        *)
(* operation holds mu for its whole body, so one operation is one atomic   *)
(* step here.  The engine is modelled at its interface: Build, Sugar,      *)
(* WithOptions(IncreaseLevel), With, the leveled write and Sync.           *)
(***************************************************************************)
EXTENDS Integers, Sequences, FiniteSets, TLC

\* ---------------------------------------------------------------- bounds
\* Longest field list a caller passes to a logging call or to With.
MaxFields == 1

\* Concurrent callers: how many log, how many calls each of them makes, and
\* how many calls the caller of Initialize and the caller of SetLevel make.
NumLoggers == 2
CallsPerLogger == 2
InitCalls == 2
SetLevelCalls == 1

\* ------------------------------------------------------ program constants
Development == 0
Test == 1
Staging == 2
Production == 3

DebugLevel == -1
InfoLevel == 0
WarnLevel == 1
ErrorLevel == 2
FatalLevel == 5

\* ------------------------------------------------------------ value forms
\* A nil pointer / nil error, and the result of a function returning nothing.
Nil == [kind |-> "nil"]
Void == [kind |-> "void"]

\* Environment values callers pass: the four defined ones and two others
\* (Environment is an int, so a caller can convert any integer to it).
EnvValues == -1 .. 4

\* Levels callers pass to Config.Level and SetLevel.
LevelInputs == {DebugLevel, InfoLevel, WarnLevel, ErrorLevel}

\* The engine has encoders for "json" and "console" only.
RegisteredEncodings == {"json", "console"}

\* Sinks the engine can open; any other path fails to open.
OpenablePaths == {"stdout", "stderr", "app.log"}
StdStreams == {"stdout", "stderr"}

SeqsUpTo(S, n) == UNION {[1 .. k -> S] : k \in 0 .. n}

\* Configurations callers pass to Initialize: every combination the engine
\* can build, and for each environment one with an unknown encoding and one
\* with a sink that cannot be opened.
BuildableConfigs ==
    [Environment : EnvValues \ {-1}, Level : LevelInputs,
     OutputPaths : {<<>>, <<"stdout">>, <<"app.log">>, <<"app.log", "stdout">>},
     Encoding : RegisteredEncodings]

UnbuildableConfigs ==
    [Environment : EnvValues \ {-1}, Level : {InfoLevel},
     OutputPaths : {<<"stdout">>}, Encoding : {"xml"}]
    \cup
    [Environment : EnvValues \ {-1}, Level : {InfoLevel},
     OutputPaths : {<<"/nonexistent/app.log">>}, Encoding : {"json"}]

Configs == BuildableConfigs \cup UnbuildableConfigs

\* Messages, fields, templates and arguments callers pass.
MsgInputs == {<<"svc up">>}
FieldInputs == SeqsUpTo({[key |-> "port", val |-> 8080]}, MaxFields)
TemplateInputs == {<<"user ", "%s">>}
ArgsInputs == {<<"john">>}

\* The concurrent callers: the loggers, one caller of Initialize and one of
\* SetLevel.
Loggers == 1 .. NumLoggers
Initializer == NumLoggers + 1
LevelSetter == NumLoggers + 2
Procs == Loggers \cup {Initializer, LevelSetter}

\* ------------------------------------------------------------------ state
VARIABLES
    phase,       \* "load" before the package init ran, "running", "exited"
    logger,      \* *zap.Logger: Nil or a Logger record
    sugar,       \* *zap.SugaredLogger: Nil or a SugaredLogger record
    currentEnv,  \* Environment
    syncErr,     \* whether flushing a standard stream fails in this process
    op,          \* the operation that ran last
    arg,         \* the tuple of arguments it was called with
    ret,         \* what it returned
    written,     \* the entries it made the engine write, one per sink
    applied,     \* Environment of the last Initialize that returned nil
    held,        \* a handle a caller kept from GetLogger or With, or Nil
    mu,          \* the RWMutex: writer holding it, writer announced, readers
    pc,          \* where each concurrent caller is in its current call
    left,        \* how many calls each concurrent caller still has to make
    job,         \* the argument of a writer's current call
    tested,      \* the handle a logging call compared with nil
    used,        \* the handle a logging call forwarded to
    committed,   \* the facade state as the last writer left it at Unlock
    buildFault,  \* whether the engine fails every build in this process
    exit,        \* Nil, or how the process ended: exit code, stream printed to
    alias,       \* whether held is the very object logger points to
    legacyEnv    \* env of the earlier, lock-free facade

vars ==
    <<phase, logger, sugar, currentEnv, syncErr, op, arg, ret, written, applied,
      held, mu, pc, left, job, tested, used, committed, buildFault, exit, alias,
      legacyEnv>>

\* The variables of the concurrent callers.
concVars == <<mu, pc, left, job, tested, used, committed>>

facade == <<logger, sugar, currentEnv>>

\* ------------------------------------------------------- pure functions
\* String with the Staging case returning the wrong name.
String_StagingAsProduction(e) ==
    CASE e = Development -> "development"
      [] e = Test -> "test"
      [] e = Staging -> "production"
      [] e = Production -> "production"
      [] OTHER -> "unknown"

String(e) ==
    CASE e = Development -> "development"
      [] e = Test -> "test"
      [] e = Staging -> "staging"
      [] e = Production -> "production"
      [] OTHER -> "unknown"

\* DefaultConfig without the Test case clearing OutputPaths.
DefaultConfig_TestKeepsStdout(env) ==
    LET config == [Environment |-> env, Level |-> InfoLevel,
                   OutputPaths |-> <<"stdout">>, Encoding |-> ""]
    IN CASE env = Development ->
              [config EXCEPT !.Level = DebugLevel, !.Encoding = "console"]
         [] env = Test ->
              [config EXCEPT !.Level = ErrorLevel, !.Encoding = "json"]
         [] env = Staging ->
              [config EXCEPT !.Level = InfoLevel, !.Encoding = "json"]
         [] env = Production ->
              [config EXCEPT !.Level = WarnLevel, !.Encoding = "json"]
         [] OTHER -> config

DefaultConfig(env) ==
    LET config == [Environment |-> env, Level |-> InfoLevel,
                   OutputPaths |-> <<"stdout">>, Encoding |-> ""]
    IN CASE env = Development ->
              [config EXCEPT !.Level = DebugLevel, !.Encoding = "console"]
         [] env = Test ->
              [config EXCEPT !.Level = ErrorLevel, !.Encoding = "json",
                             !.OutputPaths = <<>>]
         [] env = Staging ->
              [config EXCEPT !.Level = InfoLevel, !.Encoding = "json"]
         [] env = Production ->
              [config EXCEPT !.Level = WarnLevel, !.Encoding = "json"]
         [] OTHER -> config

\* The presets with the Test case keeping the production preset's sink.
PresetOutputPaths_TestKeepsStderr(env) ==
    CASE env = Development -> <<"stderr">>
      [] env \in {Production, Staging} -> <<"stderr">>
      [] env = Test -> <<"stderr">>
      [] OTHER -> <<>>

\* The engine configuration Initialize assembles before building.
PresetOutputPaths(env) ==
    CASE env = Development -> <<"stderr">>
      [] env \in {Production, Staging} -> <<"stderr">>
      [] env = Test -> <<>>
      [] OTHER -> <<>>

\* The engine configuration with OutputPaths always taken from config.
ZapConfig_AlwaysOverride(config) ==
    [Level |-> config.Level,
     Encoding |-> config.Encoding,
     OutputPaths |-> config.OutputPaths]

\* The engine configuration with the Test preset always silent.
ZapConfig_TestStaysSilent(config) ==
    [Level |-> config.Level,
     Encoding |-> config.Encoding,
     OutputPaths |-> IF Len(config.OutputPaths) > 0 /\ config.Environment # Test
                     THEN config.OutputPaths
                     ELSE PresetOutputPaths(config.Environment)]

ZapConfig(config) ==
    [Level |-> config.Level,
     Encoding |-> config.Encoding,
     OutputPaths |-> IF Len(config.OutputPaths) > 0
                     THEN config.OutputPaths
                     ELSE PresetOutputPaths(config.Environment)]

\* zapConfig.Build(): (logger, nil), or (nil, err) when there is no encoder
\* of that name, a sink cannot be opened, or the engine cannot build at all
\* in this process.
BuildError(zapConfig) ==
    IF buildFault
    THEN [kind |-> "error", msg |-> "engine fault"]
    ELSE
    IF zapConfig.Encoding \notin RegisteredEncodings
    THEN [kind |-> "error", msg |-> "no encoder registered"]
    ELSE IF \E i \in 1 .. Len(zapConfig.OutputPaths) :
                zapConfig.OutputPaths[i] \notin OpenablePaths
         THEN [kind |-> "error", msg |-> "open sink"]
         ELSE Nil

Build(zapConfig) ==
    IF BuildError(zapConfig) # Nil
    THEN Nil
    ELSE [kind |-> "Logger", level |-> zapConfig.Level,
          encoding |-> zapConfig.Encoding, sinks |-> zapConfig.OutputPaths,
          fields |-> <<>>]

Sugar(l) == [kind |-> "SugaredLogger", base |-> l]

\* logger.WithOptions(zap.IncreaseLevel(level)): a level below the current
\* one is rejected by the engine and the logger keeps its level.
IncreaseLevel(l, level) ==
    IF level < l.level THEN l ELSE [l EXCEPT !.level = level]

\* logger.With(fields...)
WithFieldsOf(l, fields) == [l EXCEPT !.fields = l.fields \o fields]

\* fmt.Sprintf as the sugared logger applies it: each "%s" takes the next
\* argument.
RECURSIVE Sprintf(_, _)
Sprintf(template, args) ==
    IF template = <<>> THEN <<>>
    ELSE IF Head(template) = "%s" /\ args # <<>>
         THEN <<Head(args)>> \o Sprintf(Tail(template), Tail(args))
         ELSE <<Head(template)>> \o Sprintf(Tail(template), args)

\* One leveled write through a logger: nothing below its level, otherwise
\* one entry per sink, in sink order.
Write(l, level, msg, fields) ==
    IF level < l.level THEN <<>>
    ELSE [i \in 1 .. Len(l.sinks) |->
            [sink |-> l.sinks[i], level |-> level, msg |-> msg,
             fields |-> l.fields \o fields]]

\* logger.Sync(): flushing a standard stream may fail, a file does not.
Flush(l) ==
    IF syncErr /\ \E i \in 1 .. Len(l.sinks) : l.sinks[i] \in StdStreams
    THEN [kind |-> "error", msg |-> "sync"]
    ELSE Nil

\* ------------------------------------------------------------- operations
\* Initialize recording the environment before the build is known to succeed.
InitializeBody_EnvBeforeBuild(config) ==
    LET zapConfig == ZapConfig(config)
        err == BuildError(zapConfig)
        built == Build(zapConfig)
    IN /\ logger' = built
       /\ currentEnv' = config.Environment
       /\ IF err # Nil
          THEN /\ ret' = [kind |-> "error", msg |-> "failed to build logger",
                          cause |-> err.msg]
               /\ UNCHANGED sugar
          ELSE /\ sugar' = Sugar(built)
               /\ ret' = Nil
       /\ written' = <<>>
       /\ applied' = IF ret' = Nil THEN config.Environment ELSE applied
       /\ alias' = FALSE

\* Initialize without the assignment sugar = logger.Sugar().
InitializeBody_NoSugar(config) ==
    LET zapConfig == ZapConfig(config)
        err == BuildError(zapConfig)
        built == Build(zapConfig)
    IN /\ logger' = built
       /\ IF err # Nil
          THEN /\ ret' = [kind |-> "error", msg |-> "failed to build logger",
                          cause |-> err.msg]
               /\ UNCHANGED <<sugar, currentEnv>>
          ELSE /\ UNCHANGED sugar
               /\ currentEnv' = config.Environment
               /\ ret' = Nil
       /\ written' = <<>>
       /\ applied' = IF ret' = Nil THEN config.Environment ELSE applied
       /\ alias' = FALSE

\* Initialize that does not let the new handle log below the level the old
\* one had been raised to.
InitializeBody_KeepsLevel(config) ==
    LET zapConfig == ZapConfig(config)
        err == BuildError(zapConfig)
        built == IF logger # Nil /\ err = Nil
                 THEN IncreaseLevel(Build(zapConfig), logger.level)
                 ELSE Build(zapConfig)
    IN /\ logger' = built
       /\ IF err # Nil
          THEN /\ ret' = [kind |-> "error", msg |-> "failed to build logger",
                          cause |-> err.msg]
               /\ UNCHANGED <<sugar, currentEnv>>
          ELSE /\ sugar' = Sugar(built)
               /\ currentEnv' = config.Environment
               /\ ret' = Nil
       /\ written' = <<>>
       /\ applied' = IF ret' = Nil THEN config.Environment ELSE applied
       /\ alias' = FALSE

\* Initialize returning an error that does not wrap the engine's.
InitializeBody_UnwrappedError(config) ==
    LET zapConfig == ZapConfig(config)
        err == BuildError(zapConfig)
        built == Build(zapConfig)
    IN /\ logger' = built
       /\ IF err # Nil
          THEN /\ ret' = [kind |-> "error", msg |-> "failed to build logger",
                          cause |-> ""]
               /\ UNCHANGED <<sugar, currentEnv>>
          ELSE /\ sugar' = Sugar(built)
               /\ currentEnv' = config.Environment
               /\ ret' = Nil
       /\ written' = <<>>
       /\ applied' = IF ret' = Nil THEN config.Environment ELSE applied
       /\ alias' = FALSE

\* The body of Initialize, shared by the package init and the public call.
InitializeBody(config) ==
    LET zapConfig == ZapConfig(config)
        err == BuildError(zapConfig)
        built == Build(zapConfig)
    IN /\ logger' = built
       /\ IF err # Nil
          THEN /\ ret' = [kind |-> "error", msg |-> "failed to build logger",
                          cause |-> err.msg]
               /\ UNCHANGED <<sugar, currentEnv>>
          ELSE /\ sugar' = Sugar(built)
               /\ currentEnv' = config.Environment
               /\ ret' = Nil
       /\ written' = <<>>
       /\ applied' = IF ret' = Nil THEN config.Environment ELSE applied
       /\ alias' = FALSE

\* The package init building the production default.
PkgInit_Production ==
    /\ phase = "load"
    /\ InitializeBody(DefaultConfig(Production))
    /\ phase' = IF ret' # Nil THEN "exited" ELSE "running"
    /\ exit' = IF ret' # Nil THEN [code |-> 1, printed |-> "stdout"] ELSE Nil
    /\ op' = "init"
    /\ UNCHANGED <<held, buildFault, legacyEnv, concVars>>
    /\ arg' = <<>>
    /\ UNCHANGED syncErr

PkgInit ==
    /\ phase = "load"
    /\ InitializeBody(DefaultConfig(Development))
    /\ phase' = IF ret' # Nil THEN "exited" ELSE "running"
    /\ exit' = IF ret' # Nil THEN [code |-> 1, printed |-> "stdout"] ELSE Nil
    /\ op' = "init"
    /\ UNCHANGED <<held, buildFault, legacyEnv, concVars>>
    /\ arg' = <<>>
    /\ UNCHANGED syncErr

\* Initialize ending the process when the build fails, as the package init
\* does.
Initialize_ExitsOnError(config) ==
    /\ phase = "running"
    /\ InitializeBody(config)
    /\ phase' = IF ret' # Nil THEN "exited" ELSE phase
    /\ exit' = IF ret' # Nil THEN [code |-> 1, printed |-> "stdout"] ELSE exit
    /\ op' = "Initialize"
    /\ UNCHANGED <<held, buildFault, legacyEnv, concVars>>
    /\ arg' = <<config>>
    /\ UNCHANGED syncErr

Initialize(config) ==
    /\ phase = "running"
    /\ InitializeBody(config)
    /\ op' = "Initialize"
    /\ UNCHANGED <<held, buildFault, legacyEnv, concVars>>
    /\ arg' = <<config>>
    /\ UNCHANGED <<phase, syncErr, exit>>

Init ==
    /\ phase = "load"
    /\ logger = Nil
    /\ sugar = Nil
    /\ currentEnv = Development
    /\ syncErr \in BOOLEAN
    /\ op = "none"
    /\ arg = <<>>
    /\ ret = Void
    /\ written = <<>>
    /\ applied = Development
    /\ held = Nil
    /\ buildFault \in BOOLEAN
    /\ exit = Nil
    /\ alias = FALSE
    /\ legacyEnv = 0
    /\ mu = [w |-> 0, announced |-> FALSE, readers |-> {}]
    /\ pc = [p \in Procs |-> "idle"]
    /\ left = [p \in Procs |-> 0]
    /\ job = [p \in Procs |-> Nil]
    /\ tested = [p \in Procs |-> Nil]
    /\ used = [p \in Procs |-> Nil]
    /\ committed = <<Nil, Nil, Development>>

\* SetEnvironment that only records the environment and keeps the handle.
SetEnvironment_RecordOnly(env) ==
    /\ phase = "running"
    /\ currentEnv' = env
    /\ applied' = env
    /\ op' = "SetEnvironment"
    /\ UNCHANGED <<held, buildFault, legacyEnv, concVars>>
    /\ arg' = <<env>>
    /\ ret' = Nil
    /\ written' = <<>>
    /\ UNCHANGED <<phase, logger, sugar, syncErr, exit, alias>>

\* SetEnvironment(env): return Initialize(DefaultConfig(env))
SetEnvironment(env) ==
    /\ phase = "running"
    /\ InitializeBody(DefaultConfig(env))
    /\ op' = "SetEnvironment"
    /\ UNCHANGED <<held, buildFault, legacyEnv, concVars>>
    /\ arg' = <<env>>
    /\ UNCHANGED <<phase, syncErr, exit>>

\* SetLevel that sets the level whether it raises or lowers it.
SetLevel_Assign(level) ==
    /\ phase = "running"
    /\ IF logger # Nil
       THEN /\ logger' = [logger EXCEPT !.level = level]
            /\ sugar' = Sugar(logger')
       ELSE UNCHANGED <<logger, sugar>>
    /\ op' = "SetLevel"
    /\ UNCHANGED <<held, buildFault, legacyEnv, concVars>>
    /\ arg' = <<level>>
    /\ ret' = Void
    /\ written' = <<>>
    /\ alias' = IF logger # Nil THEN FALSE ELSE alias
    /\ UNCHANGED <<phase, currentEnv, syncErr, applied, exit>>

\* SetLevel without the assignment sugar = logger.Sugar().
SetLevel_KeepsSugar(level) ==
    /\ phase = "running"
    /\ IF logger # Nil
       THEN /\ logger' = IncreaseLevel(logger, level)
            /\ UNCHANGED sugar
       ELSE UNCHANGED <<logger, sugar>>
    /\ op' = "SetLevel"
    /\ UNCHANGED <<held, buildFault, legacyEnv, concVars>>
    /\ arg' = <<level>>
    /\ ret' = Void
    /\ written' = <<>>
    /\ alias' = IF logger # Nil THEN FALSE ELSE alias
    /\ UNCHANGED <<phase, currentEnv, syncErr, applied, exit>>

SetLevel(level) ==
    /\ phase = "running"
    /\ IF logger # Nil
       THEN /\ logger' = IncreaseLevel(logger, level)
            /\ sugar' = Sugar(logger')
       ELSE UNCHANGED <<logger, sugar>>
    /\ op' = "SetLevel"
    /\ UNCHANGED <<held, buildFault, legacyEnv, concVars>>
    /\ arg' = <<level>>
    /\ ret' = Void
    /\ written' = <<>>
    /\ alias' = IF logger # Nil THEN FALSE ELSE alias
    /\ UNCHANGED <<phase, currentEnv, syncErr, applied, exit>>

\* An operation that only reads the facade state and returns r.
Reader(name, a, r, w) ==
    /\ phase = "running"
    /\ op' = name
    /\ UNCHANGED <<held, buildFault, legacyEnv, concVars>>
    /\ arg' = a
    /\ ret' = r
    /\ written' = w
    /\ UNCHANGED <<phase, logger, sugar, currentEnv, syncErr, applied, exit,
                   alias>>

GetLogger == Reader("GetLogger", <<>>, logger, <<>>)

GetSugar == Reader("GetSugar", <<>>, sugar, <<>>)

\* Sync that flushes but drops the engine's result.
Sync_DropsError == Reader("Sync", <<>>, Nil, <<>>)

Sync == Reader("Sync", <<>>, IF logger # Nil THEN Flush(logger) ELSE Nil, <<>>)

\* The structured form without the nil check: a nil logger is dereferenced.
Structured_NoNilCheck(name, level, msg, fields) ==
    /\ phase = "running"
    /\ op' = name
    /\ UNCHANGED <<held, buildFault, legacyEnv, concVars>>
    /\ arg' = <<msg, fields>>
    /\ ret' = Void
    /\ written' = IF logger # Nil
                  THEN Write(logger, level, msg, fields) ELSE <<>>
    /\ phase' = IF logger # Nil THEN phase ELSE "panicked"
    /\ UNCHANGED <<logger, sugar, currentEnv, syncErr, applied, exit, alias>>

\* The structured form of a level: forwards to logger when it is not nil.
Structured(name, level, msg, fields) ==
    Reader(name, <<msg, fields>>, Void,
           IF logger # Nil THEN Write(logger, level, msg, fields) ELSE <<>>)

\* The printf form of a level: forwards to sugar when it is not nil.
Formatted(name, level, template, args) ==
    Reader(name, <<template, args>>, Void,
           IF sugar # Nil
           THEN Write(sugar.base, level, Sprintf(template, args), <<>>)
           ELSE <<>>)

Debug(msg, fields) == Structured("Debug", DebugLevel, msg, fields)

Debugf(template, args) == Formatted("Debugf", DebugLevel, template, args)

Info(msg, fields) == Structured("Info", InfoLevel, msg, fields)

Infof(template, args) == Formatted("Infof", InfoLevel, template, args)

\* Warn forwarding at the info level.
Warn_AtInfo(msg, fields) == Structured("Warn", InfoLevel, msg, fields)

Warn(msg, fields) == Structured("Warn", WarnLevel, msg, fields)

Warnf(template, args) == Formatted("Warnf", WarnLevel, template, args)

Error(msg, fields) == Structured("Error", ErrorLevel, msg, fields)

Errorf(template, args) == Formatted("Errorf", ErrorLevel, template, args)

\* Fatal forwarding at the error level, which does not end the process.
Fatal_AtError(msg, fields) ==
    /\ phase = "running"
    /\ op' = "Fatal"
    /\ UNCHANGED <<held, buildFault, legacyEnv, concVars>>
    /\ arg' = <<msg, fields>>
    /\ ret' = Void
    /\ written' = IF logger # Nil
                  THEN Write(logger, ErrorLevel, msg, fields) ELSE <<>>
    /\ UNCHANGED <<phase, logger, sugar, currentEnv, syncErr, applied, exit,
                   alias>>

\* Fatal and Fatalf: the engine writes the entry and then exits the process.
Fatal(msg, fields) ==
    /\ phase = "running"
    /\ op' = "Fatal"
    /\ UNCHANGED <<held, buildFault, legacyEnv, concVars>>
    /\ arg' = <<msg, fields>>
    /\ ret' = Void
    /\ written' = IF logger # Nil
                  THEN Write(logger, FatalLevel, msg, fields) ELSE <<>>
    /\ phase' = IF logger # Nil THEN "exited" ELSE phase
    /\ exit' = IF logger # Nil THEN [code |-> 1, printed |-> "none"] ELSE exit
    /\ UNCHANGED <<logger, sugar, currentEnv, syncErr, applied, alias>>

\* Fatalf guarded by logger instead of sugar.
Fatalf_TestsLogger(template, args) ==
    /\ phase = "running"
    /\ op' = "Fatalf"
    /\ UNCHANGED <<held, buildFault, legacyEnv, concVars>>
    /\ arg' = <<template, args>>
    /\ ret' = Void
    /\ written' = IF logger # Nil /\ sugar # Nil
                  THEN Write(sugar.base, FatalLevel,
                             Sprintf(template, args), <<>>)
                  ELSE <<>>
    /\ phase' = IF logger # Nil /\ sugar # Nil THEN "exited" ELSE phase
    /\ exit' = IF logger # Nil /\ sugar # Nil
               THEN [code |-> 1, printed |-> "none"] ELSE exit
    /\ UNCHANGED <<logger, sugar, currentEnv, syncErr, applied, alias>>

Fatalf(template, args) ==
    /\ phase = "running"
    /\ op' = "Fatalf"
    /\ UNCHANGED <<held, buildFault, legacyEnv, concVars>>
    /\ arg' = <<template, args>>
    /\ ret' = Void
    /\ written' = IF sugar # Nil
                  THEN Write(sugar.base, FatalLevel,
                             Sprintf(template, args), <<>>)
                  ELSE <<>>
    /\ phase' = IF sugar # Nil THEN "exited" ELSE phase
    /\ exit' = IF sugar # Nil THEN [code |-> 1, printed |-> "none"] ELSE exit
    /\ UNCHANGED <<logger, sugar, currentEnv, syncErr, applied, alias>>

\* With storing the child it returns as the facade's handle.
With_StoresChild(fields) ==
    /\ phase = "running"
    /\ op' = "With"
    /\ UNCHANGED <<held, buildFault, legacyEnv, concVars>>
    /\ arg' = <<fields>>
    /\ ret' = IF logger # Nil THEN WithFieldsOf(logger, fields) ELSE Nil
    /\ logger' = ret'
    /\ written' = <<>>
    /\ UNCHANGED <<phase, sugar, currentEnv, syncErr, applied, exit, alias>>

With(fields) ==
    Reader("With", <<fields>>,
           IF logger # Nil THEN WithFieldsOf(logger, fields) ELSE Nil, <<>>)

\* WithFields(fields...): return With(fields...)
WithFields(fields) ==
    Reader("WithFields", <<fields>>,
           IF logger # Nil THEN WithFieldsOf(logger, fields) ELSE Nil, <<>>)

\* Calls of the two pure functions.
CallDefaultConfig(env) == Reader("DefaultConfig", <<env>>, DefaultConfig(env), <<>>)

CallString(e) ==
    Reader("String", <<e>>, [kind |-> "string", value |-> String(e)], <<>>)

\* The in-package test that clears both handles under the write lock.
TestNilLoggerHandling ==
    /\ phase = "running"
    /\ logger' = Nil
    /\ sugar' = Nil
    /\ op' = "TestNilLoggerHandling"
    /\ UNCHANGED <<held, buildFault, legacyEnv, concVars>>
    /\ arg' = <<>>
    /\ ret' = Void
    /\ written' = <<>>
    /\ alias' = FALSE
    /\ UNCHANGED <<phase, currentEnv, syncErr, applied, exit>>

\* ------------------------------------------- a caller that keeps a handle
\* What With returns: a child of logger carrying fields, or nil.
WithResult_ReturnsParent(fields) == logger

WithResult(fields) ==
    IF logger # Nil THEN WithFieldsOf(logger, fields) ELSE Nil

\* child := With(fields...) or WithFields(fields...), kept by the caller.
KeepWith(name, fields) ==
    /\ phase = "running"
    /\ op' = name
    /\ arg' = <<fields>>
    /\ ret' = WithResult(fields)
    /\ held' = ret'
    /\ alias' = FALSE
    /\ written' = <<>>
    /\ UNCHANGED <<phase, logger, sugar, currentEnv, syncErr, applied, concVars,
                   buildFault, exit, legacyEnv>>

\* h := GetLogger(), kept by the caller.
KeepLogger ==
    /\ phase = "running"
    /\ op' = "GetLogger"
    /\ arg' = <<>>
    /\ ret' = logger
    /\ held' = logger
    /\ alias' = (logger # Nil)
    /\ written' = <<>>
    /\ UNCHANGED <<phase, logger, sugar, currentEnv, syncErr, applied, concVars,
                   buildFault, exit, legacyEnv>>

\* A kept handle that follows the facade: the call goes to the current
\* logger.
HeldInfo_ThroughFacade(msg, fields) ==
    /\ phase = "running"
    /\ held # Nil
    /\ op' = "held.Info"
    /\ arg' = <<msg, fields>>
    /\ ret' = Void
    /\ written' = IF logger # Nil THEN Write(logger, InfoLevel, msg, fields)
                  ELSE <<>>
    /\ UNCHANGED <<phase, logger, sugar, currentEnv, syncErr, applied, held,
                   concVars, buildFault, exit, alias, legacyEnv>>

\* child.Info(msg, fields...) on the kept handle.
HeldInfo(msg, fields) ==
    /\ phase = "running"
    /\ held # Nil
    /\ op' = "held.Info"
    /\ arg' = <<msg, fields>>
    /\ ret' = Void
    /\ written' = Write(held, InfoLevel, msg, fields)
    /\ UNCHANGED <<phase, logger, sugar, currentEnv, syncErr, applied, held,
                   concVars, buildFault, exit, alias,
                   legacyEnv>>

Logging ==
    \/ \E msg \in MsgInputs, fields \in FieldInputs :
          \/ Debug(msg, fields)
          \/ Info(msg, fields)
          \/ Warn(msg, fields)
          \/ Error(msg, fields)
          \/ Fatal(msg, fields)
    \/ \E template \in TemplateInputs, args \in ArgsInputs :
          \/ Debugf(template, args)
          \/ Infof(template, args)
          \/ Warnf(template, args)
          \/ Errorf(template, args)
          \/ Fatalf(template, args)

Next ==
    \/ PkgInit
    \/ \E config \in Configs : Initialize(config)
    \/ \E env \in EnvValues : SetEnvironment(env)
    \/ \E level \in LevelInputs : SetLevel(level)
    \/ GetLogger
    \/ GetSugar
    \/ Sync
    \/ Logging
    \/ \E fields \in FieldInputs : With(fields) \/ WithFields(fields)
    \/ \E env \in EnvValues : CallDefaultConfig(env)
    \/ \E e \in EnvValues : CallString(e)
    \/ TestNilLoggerHandling

Spec == Init /\ [][Next]_vars

\* Configurations the caller that keeps handles switches between.
HeldConfigs ==
    {DefaultConfig(env) : env \in {Development, Test, Staging, Production}}
    \cup {[Environment |-> Development, Level |-> InfoLevel,
           OutputPaths |-> <<"app.log", "stdout">>, Encoding |-> "json"],
          [Environment |-> Production, Level |-> InfoLevel,
           OutputPaths |-> <<"/nonexistent/app.log">>, Encoding |-> "json"]}

NextHeld ==
    \/ PkgInit
    \/ \E config \in HeldConfigs : Initialize(config)
    \/ \E level \in LevelInputs : SetLevel(level)
    \/ \E fields \in FieldInputs :
          KeepWith("With", fields) \/ KeepWith("WithFields", fields)
    \/ KeepLogger
    \/ \E msg \in MsgInputs, fields \in FieldInputs :
          HeldInfo(msg, fields) \/ Info(msg, fields)

SpecHeld == Init /\ [][NextHeld]_vars

\* ------------------------------------------------------ concurrent callers
\* Every operation starts with mu.Lock() or mu.RLock() and releases the lock
\* by a deferred call when it returns.  The steps below are those of one
\* logging call (the same shape as every reader), of Initialize and of
\* SetLevel, one step per lock operation and per read or write of a package
\* variable.
seqVars ==
    <<phase, syncErr, op, arg, ret, written, applied, held, buildFault, exit,
      alias, legacyEnv>>

ReaderCS == {"rlocked", "tested", "forwarded"}

WriterCS == {"locked", "built", "sugared", "raised", "assigned", "failed"}

Calls(p) ==
    IF p \in Loggers THEN CallsPerLogger
    ELSE IF p = Initializer THEN InitCalls ELSE SetLevelCalls

\* Configurations and levels the concurrent writers pass.
ConcConfigs ==
    {DefaultConfig(Test), DefaultConfig(Production),
     [Environment |-> Staging, Level |-> InfoLevel,
      OutputPaths |-> <<"/nonexistent/app.log">>, Encoding |-> "json"]}

ConcLevels == {WarnLevel, ErrorLevel}

\* mu.RLock() that does not wait for a writer.
RLock_IgnoresWriter(p) ==
    /\ p \in Loggers
    /\ pc[p] = "idle"
    /\ left[p] > 0
    /\ mu' = [mu EXCEPT !.readers = @ \cup {p}]
    /\ pc' = [pc EXCEPT ![p] = "rlocked"]
    /\ UNCHANGED <<facade, seqVars, left, job, tested, used, committed>>

\* mu.RLock(): waits while a writer holds the lock or has announced itself.
RLock(p) ==
    /\ p \in Loggers
    /\ pc[p] = "idle"
    /\ left[p] > 0
    /\ ~mu.announced
    /\ mu' = [mu EXCEPT !.readers = @ \cup {p}]
    /\ pc' = [pc EXCEPT ![p] = "rlocked"]
    /\ UNCHANGED <<facade, seqVars, left, job, tested, used, committed>>

\* if logger != nil
TestNil(p) ==
    /\ pc[p] = "rlocked"
    /\ tested' = [tested EXCEPT ![p] = logger]
    /\ pc' = [pc EXCEPT ![p] = "tested"]
    /\ UNCHANGED <<facade, seqVars, mu, left, job, used, committed>>

\* logger.Debug(msg, fields...): the variable is read again.
Forward(p) ==
    /\ pc[p] = "tested"
    /\ used' = [used EXCEPT ![p] = IF tested[p] # Nil THEN logger ELSE Nil]
    /\ pc' = [pc EXCEPT ![p] = "forwarded"]
    /\ UNCHANGED <<facade, seqVars, mu, left, job, tested, committed>>

\* A logging call returning without the deferred mu.RUnlock().
RUnlock_NoRelease(p) ==
    /\ pc[p] = "forwarded"
    /\ pc' = [pc EXCEPT ![p] = "idle"]
    /\ left' = [left EXCEPT ![p] = @ - 1]
    /\ UNCHANGED <<facade, seqVars, mu, job, tested, used, committed>>

\* the deferred mu.RUnlock()
RUnlock(p) ==
    /\ pc[p] = "forwarded"
    /\ mu' = [mu EXCEPT !.readers = @ \ {p}]
    /\ pc' = [pc EXCEPT ![p] = "idle"]
    /\ left' = [left EXCEPT ![p] = @ - 1]
    /\ UNCHANGED <<facade, seqVars, job, tested, used, committed>>

\* mu.Lock() that does not take the writers' mutex first.
LockAnnounce_NoMutex(p, a) ==
    /\ pc[p] = "idle"
    /\ left[p] > 0
    /\ mu' = [mu EXCEPT !.w = p, !.announced = TRUE]
    /\ job' = [job EXCEPT ![p] = a]
    /\ pc' = [pc EXCEPT ![p] = "waiting"]
    /\ UNCHANGED <<facade, seqVars, left, tested, used, committed>>

\* mu.Lock(), first half: take the writers' mutex and announce the writer,
\* which keeps new readers out.
LockAnnounce(p, a) ==
    /\ pc[p] = "idle"
    /\ left[p] > 0
    /\ mu.w = 0
    /\ mu' = [mu EXCEPT !.w = p, !.announced = TRUE]
    /\ job' = [job EXCEPT ![p] = a]
    /\ pc' = [pc EXCEPT ![p] = "waiting"]
    /\ UNCHANGED <<facade, seqVars, left, tested, used, committed>>

\* mu.Lock(), second half: wait until the active readers have left.
LockAcquire(p) ==
    /\ pc[p] = "waiting"
    /\ mu.readers = {}
    /\ pc' = [pc EXCEPT ![p] = "locked"]
    /\ UNCHANGED <<facade, seqVars, mu, left, job, tested, used, committed>>

\* logger, err = zapConfig.Build()
AssignLogger(p) ==
    /\ p = Initializer
    /\ pc[p] = "locked"
    /\ logger' = Build(ZapConfig(job[p]))
    /\ pc' = [pc EXCEPT ![p] = IF BuildError(ZapConfig(job[p])) # Nil
                               THEN "failed" ELSE "built"]
    /\ UNCHANGED <<sugar, currentEnv, seqVars, mu, left, job, tested, used,
                   committed>>

\* logger = logger.WithOptions(zap.IncreaseLevel(level)), when not nil
AssignLevel(p) ==
    /\ p = LevelSetter
    /\ pc[p] = "locked"
    /\ logger' = IF logger # Nil THEN IncreaseLevel(logger, job[p].Level)
                  ELSE logger
    /\ pc' = [pc EXCEPT ![p] = IF logger # Nil THEN "raised" ELSE "assigned"]
    /\ UNCHANGED <<sugar, currentEnv, seqVars, mu, left, job, tested, used,
                   committed>>

\* sugar = logger.Sugar()
AssignSugar(p) ==
    /\ pc[p] \in {"built", "raised"}
    /\ sugar' = Sugar(logger)
    /\ pc' = [pc EXCEPT ![p] = IF pc[p] = "built" THEN "sugared"
                               ELSE "assigned"]
    /\ UNCHANGED <<logger, currentEnv, seqVars, mu, left, job, tested, used,
                   committed>>

\* currentEnv = config.Environment
AssignEnv(p) ==
    /\ pc[p] = "sugared"
    /\ currentEnv' = job[p].Environment
    /\ pc' = [pc EXCEPT ![p] = "assigned"]
    /\ UNCHANGED <<logger, sugar, seqVars, mu, left, job, tested, used,
                   committed>>

\* return nil, with the deferred mu.Unlock()
Unlock(p) ==
    /\ pc[p] = "assigned"
    /\ mu' = [mu EXCEPT !.w = 0, !.announced = FALSE]
    /\ committed' = facade
    /\ pc' = [pc EXCEPT ![p] = "idle"]
    /\ left' = [left EXCEPT ![p] = @ - 1]
    /\ UNCHANGED <<facade, seqVars, job, tested, used>>

\* The error return leaving without the unlock (no defer).
ReturnError_KeepsLock(p) ==
    /\ pc[p] = "failed"
    /\ committed' = facade
    /\ pc' = [pc EXCEPT ![p] = "idle"]
    /\ left' = [left EXCEPT ![p] = @ - 1]
    /\ UNCHANGED <<facade, seqVars, mu, job, tested, used>>

\* return fmt.Errorf(...), with the deferred mu.Unlock()
ReturnError(p) ==
    /\ pc[p] = "failed"
    /\ mu' = [mu EXCEPT !.w = 0, !.announced = FALSE]
    /\ committed' = facade
    /\ pc' = [pc EXCEPT ![p] = "idle"]
    /\ left' = [left EXCEPT ![p] = @ - 1]
    /\ UNCHANGED <<facade, seqVars, job, tested, used>>

Step(p) ==
    \/ RLock(p)
    \/ TestNil(p)
    \/ Forward(p)
    \/ RUnlock(p)
    \/ p = Initializer /\ \E config \in ConcConfigs : LockAnnounce(p, config)
    \/ p = LevelSetter /\ \E level \in ConcLevels :
                                LockAnnounce(p, [Level |-> level])
    \/ LockAcquire(p)
    \/ AssignLogger(p)
    \/ AssignLevel(p)
    \/ AssignSugar(p)
    \/ AssignEnv(p)
    \/ Unlock(p)
    \/ ReturnError(p)

\* The state the package init leaves, with every caller about to start.
InitConc ==
    /\ buildFault = FALSE
    /\ phase = "running"
    /\ logger = Build(ZapConfig(DefaultConfig(Development)))
    /\ sugar = Sugar(logger)
    /\ currentEnv = Development
    /\ syncErr = FALSE
    /\ op = "init"
    /\ arg = <<>>
    /\ ret = Nil
    /\ written = <<>>
    /\ applied = Development
    /\ held = Nil
    /\ exit = Nil
    /\ alias = FALSE
    /\ legacyEnv = 0
    /\ mu = [w |-> 0, announced |-> FALSE, readers |-> {}]
    /\ pc = [p \in Procs |-> "idle"]
    /\ left = [p \in Procs |-> Calls(p)]
    /\ job = [p \in Procs |-> Nil]
    /\ tested = [p \in Procs |-> Nil]
    /\ used = [p \in Procs |-> Nil]
    /\ committed = <<logger, sugar, currentEnv>>

NextConc == \E p \in Procs : Step(p)

SpecConc == InitConc /\ [][NextConc]_vars

\* The scheduler runs every caller that can take a step.
FairSpecConc == SpecConc /\ \A p \in Procs : WF_vars(Step(p))

\* ------------------------------------------ the earlier, lock-free facade
\* The first version of the package: one handle, no lock, no nil checks.
\* It has the same package variable logger; its env is legacyEnv here.
DEVELOPMENT == 0
TEST == 1
STAGING == 2
PRODUCTION == 3

\* Values callers pass to SetEnvironment: the four constants and one other
\* integer constant.
LegacyEnvValues == DEVELOPMENT .. PRODUCTION + 1

\* zap.NewDevelopment() and zap.NewProduction(): the engine's two presets,
\* both writing to stderr; nil when the engine cannot build.
NewDevelopment ==
    Build([Level |-> DebugLevel, Encoding |-> "console",
           OutputPaths |-> <<"stderr">>])

NewProduction ==
    Build([Level |-> InfoLevel, Encoding |-> "json",
           OutputPaths |-> <<"stderr">>])

\* What no operation of this version touches.
legacyRest ==
    <<sugar, currentEnv, syncErr, applied, held, alias, buildFault, concVars>>

\* init: SetDebugMode(env == DEVELOPMENT)
LegacyInit ==
    /\ phase = "load"
    /\ logger' = IF legacyEnv = DEVELOPMENT THEN NewDevelopment
                  ELSE NewProduction
    /\ phase' = "running"
    /\ op' = "init"
    /\ arg' = <<>>
    /\ ret' = Void
    /\ written' = <<>>
    /\ UNCHANGED <<legacyEnv, exit, legacyRest>>

\* SetEnvironment that also rebuilds the handle for the environment.
LegacySetEnvironment_Rebuilds(e) ==
    /\ phase = "running"
    /\ legacyEnv' = e
    /\ logger' = IF e = DEVELOPMENT THEN NewDevelopment ELSE NewProduction
    /\ op' = "SetEnvironment"
    /\ arg' = <<e>>
    /\ ret' = Void
    /\ written' = <<>>
    /\ UNCHANGED <<phase, exit, legacyRest>>

\* SetEnvironment(e): env = e
LegacySetEnvironment(e) ==
    /\ phase = "running"
    /\ legacyEnv' = e
    /\ op' = "SetEnvironment"
    /\ arg' = <<e>>
    /\ ret' = Void
    /\ written' = <<>>
    /\ UNCHANGED <<phase, logger, exit, legacyRest>>

\* SetDebugMode(isDebug): the build error is dropped, so a failed build
\* leaves logger nil.
LegacySetDebugMode(isDebug) ==
    /\ phase = "running"
    /\ logger' = IF isDebug THEN NewDevelopment ELSE NewProduction
    /\ op' = "SetDebugMode"
    /\ arg' = <<isDebug>>
    /\ ret' = Void
    /\ written' = <<>>
    /\ UNCHANGED <<phase, legacyEnv, exit, legacyRest>>

\* logger.Debug(msg, fields...) and the like, with no nil test: a nil logger
\* is dereferenced and the process panics; the fatal level exits.
LegacyLog(name, level, msg, fields) ==
    /\ phase = "running"
    /\ op' = name
    /\ arg' = <<msg, fields>>
    /\ ret' = Void
    /\ written' = IF logger # Nil THEN Write(logger, level, msg, fields)
                  ELSE <<>>
    /\ phase' = IF logger = Nil THEN "panicked"
                 ELSE IF level = FatalLevel THEN "exited" ELSE phase
    /\ exit' = IF logger = Nil THEN [code |-> 2, printed |-> "stderr"]
                ELSE IF level = FatalLevel
                     THEN [code |-> 1, printed |-> "none"] ELSE exit
    /\ UNCHANGED <<logger, legacyEnv, legacyRest>>

LegacyDebug(msg, fields) == LegacyLog("Debug", DebugLevel, msg, fields)

LegacyInfo(msg, fields) == LegacyLog("Info", InfoLevel, msg, fields)

LegacyWarn(msg, fields) == LegacyLog("Warn", WarnLevel, msg, fields)

LegacyFatal(msg, fields) == LegacyLog("Fatal", FatalLevel, msg, fields)

NextLegacy ==
    \/ LegacyInit
    \/ \E e \in LegacyEnvValues : LegacySetEnvironment(e)
    \/ \E isDebug \in BOOLEAN : LegacySetDebugMode(isDebug)
    \/ \E msg \in MsgInputs, fields \in FieldInputs :
          \/ LegacyDebug(msg, fields)
          \/ LegacyInfo(msg, fields)
          \/ LegacyWarn(msg, fields)
          \/ LegacyFatal(msg, fields)

SpecLegacy == Init /\ [][NextLegacy]_vars

\* ----------------------------------------------------------------- claims
InitializeOps == {"init", "Initialize", "SetEnvironment"}

StructuredOps == {"Debug", "Info", "Warn", "Error"}

FormattedOps == {"Debugf", "Infof", "Warnf", "Errorf"}

NonFatalLoggingOps == StructuredOps \cup FormattedOps

HandleOps == {"GetLogger", "GetSugar", "With", "WithFields"}

LevelOf(name) ==
    CASE name \in {"Debug", "Debugf"} -> DebugLevel
      [] name \in {"Info", "Infof"} -> InfoLevel
      [] name \in {"Warn", "Warnf"} -> WarnLevel
      [] name \in {"Error", "Errorf"} -> ErrorLevel

Max(a, b) == IF a >= b THEN a ELSE b

\* C1: a failed Initialize returns an error and leaves logger, sugar and
\* currentEnv exactly as they were before the call.
C1_FailedInitializeKeepsState ==
    [][(op' = "Initialize" /\ ret' # Nil) => UNCHANGED facade]_vars

\* C2: once a handle is active it stays active across Initialize (succeeding
\* or failing), SetEnvironment, SetLevel, Sync, With, the getters and the
\* non-fatal logging calls.
C2_ActiveStaysActive ==
    [][(logger # Nil /\ op' \in {"Initialize", "SetEnvironment", "SetLevel",
                                  "Sync"} \cup HandleOps \cup NonFatalLoggingOps)
          => logger' # Nil]_vars

\* C3: currentEnv is always the Environment of the most recent Initialize or
\* SetEnvironment that returned nil (Development if none), and every other
\* step, a failed Initialize included, leaves currentEnv unchanged.
C3_CurrentEnvIsLastApplied ==
    /\ [](currentEnv = applied)
    /\ [][(op' \in InitializeOps => ret' # Nil)
             => currentEnv' = currentEnv]_vars

C3_Witness ==
    /\ op = "Initialize"
    /\ ret # Nil
    /\ currentEnv = Production
    /\ applied = Production

\* C4: right after Initialize(cfg) returned nil, GetLogger() and GetSugar()
\* are non-nil and currentEnv is cfg.Environment.
C4_SuccessfulInitializeActivates ==
    (op = "Initialize" /\ ret = Nil)
        => /\ logger # Nil
           /\ sugar # Nil
           /\ currentEnv = arg[1].Environment

C4_Witness ==
    /\ op = "Initialize"
    /\ ret = Nil
    /\ arg[1].Environment = Test
    /\ arg[1].OutputPaths = <<>>
    /\ logger # Nil
    /\ sugar # Nil
    /\ currentEnv = Test

\* C5: a SetEnvironment(E) step is an Initialize(DefaultConfig(E)) step (same
\* result, same facade state), and for each of the four defined environments
\* it returns nil with currentEnv = E afterwards.
C5_SetEnvironmentIsInitializeOfDefault ==
    [][op' = "SetEnvironment"
          => /\ InitializeBody(DefaultConfig(arg'[1]))
             /\ arg'[1] \in {Development, Test, Staging, Production}
                   => (ret' = Nil /\ currentEnv' = arg'[1])]_vars

C5_Witness ==
    /\ op = "SetEnvironment"
    /\ arg = <<Staging>>
    /\ ret = Nil
    /\ currentEnv = Staging
    /\ logger # Nil
    /\ logger.level = InfoLevel

\* C6: DefaultConfig(env) returns Environment = env and the level, encoding
\* and output paths of the table, and changes no facade state.
C6_DefaultConfigTable ==
    [][op' = "DefaultConfig"
          => /\ ret'.Environment = arg'[1]
             /\ arg'[1] = Development
                   => /\ ret'.Level = DebugLevel
                      /\ ret'.Encoding = "console"
                      /\ ret'.OutputPaths = <<"stdout">>
             /\ arg'[1] = Test
                   => /\ ret'.Level = ErrorLevel
                      /\ ret'.Encoding = "json"
                      /\ ret'.OutputPaths = <<>>
             /\ arg'[1] = Staging
                   => /\ ret'.Level = InfoLevel
                      /\ ret'.Encoding = "json"
                      /\ ret'.OutputPaths = <<"stdout">>
             /\ arg'[1] = Production
                   => /\ ret'.Level = WarnLevel
                      /\ ret'.Encoding = "json"
                      /\ ret'.OutputPaths = <<"stdout">>
             /\ UNCHANGED facade]_vars

C6_Witness ==
    /\ op = "DefaultConfig"
    /\ arg = <<Test>>
    /\ ret.Level = ErrorLevel
    /\ ret.OutputPaths = <<>>

\* C7: String names the four defined environments "development", "test",
\* "staging", "production", and every other value "unknown".
C7_EnvironmentNames ==
    op = "String"
        => ret.value = CASE arg[1] = 0 -> "development"
                         [] arg[1] = 1 -> "test"
                         [] arg[1] = 2 -> "staging"
                         [] arg[1] = 3 -> "production"
                         [] OTHER -> "unknown"

C7_Witness ==
    /\ op = "String"
    /\ arg = <<4>>
    /\ ret.value = "unknown"

\* C8: with logger and sugar both nil, the eight non-fatal logging calls
\* return normally, record nothing and leave the facade state unchanged, and
\* GetLogger, GetSugar, With and WithFields return nil.
C8_NoHandleIsNoOp ==
    [][(phase = "running" /\ logger = Nil /\ sugar = Nil)
          => /\ op' \in NonFatalLoggingOps
                   => /\ phase' = "running"
                      /\ ret' = Void
                      /\ written' = <<>>
                      /\ UNCHANGED facade
             /\ op' \in HandleOps => ret' = Nil]_vars

C8_Witness ==
    /\ logger = Nil
    /\ sugar = Nil
    /\ op = "Error"
    /\ phase = "running"
    /\ written = <<>>

C11_SetLevelSetsLevel ==
    [][/\ (op' = "SetLevel" /\ logger # Nil)
             => (logger' # Nil /\ logger'.level = arg'[1])
       /\ (op = "SetLevel" /\ logger # Nil /\ arg = <<DebugLevel>>
              /\ op' = "Debug")
             => Len(written') = Len(logger.sinks)]_vars

\* C14: with a handle active, Fatal and Fatalf record their entry (one per
\* sink, at the fatal level) and end the process; nothing runs afterwards.
C14_FatalRecordsThenExits ==
    [][/\ (phase = "running" /\ logger # Nil /\ op' \in {"Fatal", "Fatalf"})
             => /\ phase' = "exited"
                /\ Len(written') = Len(logger.sinks)
                /\ \A i \in 1 .. Len(written') :
                      /\ written'[i].sink = logger.sinks[i]
                      /\ written'[i].level = FatalLevel
                      /\ written'[i].msg = IF op' = "Fatal" THEN arg'[1]
                                           ELSE Sprintf(arg'[1], arg'[2])
       /\ phase = "exited" => UNCHANGED vars]_vars

C14_Witness ==
    /\ op = "Fatal"
    /\ phase = "exited"
    /\ logger # Nil
    /\ Len(written) = 2
    /\ written[1].level = FatalLevel

\* C15: a Fatal call made right after Initialize returned an error records
\* its entry and ends the process.
C15_FatalAfterFailedInitializeExits ==
    [][(op = "Initialize" /\ ret # Nil /\ phase = "running"
           /\ op' = "Fatal")
          => phase' = "exited"]_vars

\* C17 as stated: after a successful Initialize(cfg) with empty
\* cfg.OutputPaths the built engine has no sink, whatever cfg.Environment.
C17_EmptyOutputPathsMeansNoSink ==
    (op = "Initialize" /\ ret = Nil /\ arg[1].OutputPaths = <<>>)
        => (logger # Nil /\ logger.sinks = <<>>)

\* C17 amended: after a successful Initialize(cfg) with empty
\* cfg.OutputPaths the engine keeps the sinks of the environment's preset:
\* none for Test and for values outside the four defined environments, the
\* preset's stderr for Development, Staging and Production.
C17_EmptyOutputPathsKeepsPreset ==
    (op = "Initialize" /\ ret = Nil /\ arg[1].OutputPaths = <<>>)
        => /\ logger # Nil
           /\ logger.sinks =
                 IF arg[1].Environment \in {Development, Staging, Production}
                 THEN <<"stderr">> ELSE <<>>

C17_Witness ==
    /\ op = "Initialize"
    /\ ret = Nil
    /\ arg[1].OutputPaths = <<>>
    /\ arg[1].Environment = Production
    /\ logger # Nil
    /\ logger.sinks = <<"stderr">>

\* C18: Initialize({Test, Info, [], json}) returns nil and builds a handle
\* without sinks; on that handle Info writes no entry and Sync returns nil,
\* every time.
TestInfoConfig ==
    [Environment |-> Test, Level |-> InfoLevel, OutputPaths |-> <<>>,
     Encoding |-> "json"]

C18_SilentTestConfiguration ==
    /\ (op = "Initialize" /\ arg = <<TestInfoConfig>>)
          => /\ ret = Nil
             /\ logger # Nil
             /\ logger.sinks = <<>>
             /\ logger.level = InfoLevel
    /\ (logger # Nil /\ logger.sinks = <<>>)
          => /\ op \in NonFatalLoggingOps => written = <<>>
             /\ op = "Sync" => ret = Nil

C18_Witness ==
    /\ op = "Sync"
    /\ ret = Nil
    /\ syncErr
    /\ logger # Nil
    /\ logger.sinks = <<>>
    /\ logger.level = InfoLevel
    /\ currentEnv = Test

\* C19: Sync returns nil when logger is nil, otherwise the result of
\* flushing the active handle (an error exactly when that flush fails), and
\* leaves logger, sugar and currentEnv unchanged.
C19_SyncReturnsFlushResult ==
    [][op' = "Sync"
          => /\ UNCHANGED facade
             /\ written' = <<>>
             /\ IF logger # Nil /\ syncErr
                   /\ \E i \in 1 .. Len(logger.sinks) :
                         logger.sinks[i] \in {"stdout", "stderr"}
                THEN ret' = [kind |-> "error", msg |-> "sync"]
                ELSE ret' = Nil]_vars

C19_Witness ==
    /\ op = "Sync"
    /\ logger # Nil
    /\ ret # Nil
    /\ ret.kind = "error"

\* C20: no public operation runs before the package init, and when the
\* init succeeded the facade is active with currentEnv = Development,
\* minimum level Debug and output stdout.
C20_StartupInitializesDevelopment ==
    /\ [](phase = "load" => (op = "none" /\ logger = Nil /\ sugar = Nil))
    /\ []((op = "init" /\ phase = "running")
             => /\ currentEnv = Development
                /\ logger # Nil
                /\ logger.level = DebugLevel
                /\ logger.sinks = <<"stdout">>
                /\ logger.encoding = "console"
                /\ sugar = Sugar(logger))
    /\ [][phase = "load" => (op' = "init" /\ phase' # "load")]_vars

C20_Witness ==
    /\ op = "init"
    /\ phase = "running"
    /\ currentEnv = Development
    /\ logger # Nil
    /\ logger.level = DebugLevel

\* C16: with a handle active, With(fields) and WithFields(fields) return a
\* non-nil child and leave logger, sugar and currentEnv unchanged; every
\* entry logged through the child carries `fields` (before the fields of
\* the call), and entries logged through the facade carry only the fields
\* of the call.
C16_WithReturnsChildKeepsFacade ==
    /\ [][(op' \in {"With", "WithFields"} /\ logger # Nil)
             => /\ ret' # Nil
                /\ held' = ret'
                /\ held'.fields = arg'[1]
                /\ held'.sinks = logger.sinks
                /\ held'.level = logger.level
                /\ UNCHANGED facade]_vars
    /\ [][(op' = "held.Info" /\ held # Nil)
             => /\ UNCHANGED facade
                /\ \A i \in 1 .. Len(written') :
                      written'[i].fields = held.fields \o arg'[2]
                /\ Len(written') =
                      IF InfoLevel < held.level THEN 0 ELSE Len(held.sinks)]_vars
    /\ []((op = "Info" /\ logger # Nil)
             => \A i \in 1 .. Len(written) : written[i].fields = arg[2])

C16_Witness ==
    /\ op = "held.Info"
    /\ held # Nil
    /\ Len(held.fields) = 1
    /\ logger # Nil
    /\ logger.fields = <<>>
    /\ written # <<>>
    /\ Len(written[1].fields) = 2

AllDone == \A p \in Procs : pc[p] = "idle" /\ left[p] = 0

\* C12: while a reader is inside its read-locked section no writer is
\* between Lock and Unlock, so the facade state a reader sees is the one the
\* last writer left when it returned, and the handle a logging call forwards
\* to is the handle it compared with nil.
C12_ReadersSeeCommittedState ==
    /\ \A p \in Loggers :
          pc[p] \in ReaderCS
             => /\ \A q \in Procs : pc[q] \notin WriterCS
                /\ facade = committed
    /\ \A p \in Loggers : pc[p] = "forwarded" => used[p] = tested[p]

C12_Witness ==
    /\ pc[1] = "forwarded"
    /\ used[1] = Nil
    /\ sugar # Nil
    /\ pc[Initializer] = "waiting"
    /\ pc[2] = "idle"
    /\ left[2] > 0

\* C13: no deadlock is reachable (some caller can step unless all calls
\* have returned) and under fair scheduling every caller finishes all its
\* calls.
C13_NoDeadlockAllCallsReturn ==
    /\ [](AllDone \/ ENABLED NextConc)
    /\ <>[]AllDone

C13_Witness ==
    /\ AllDone
    /\ logger = Nil
    /\ sugar # Nil

\* C21: when the package init fails the process ends at once with a
\* non-zero exit code and the diagnostic is printed to the standard error
\* stream.
C21_StartupFailureDiagnosticOnStderr ==
    (op = "init" /\ ret # Nil)
        => /\ phase = "exited"
           /\ exit # Nil
           /\ exit.code # 0
           /\ exit.printed = "stderr"

\* C22: Fatal is a no-op (nothing recorded, normal return, the process
\* continues, nothing changed) exactly when logger is nil, and Fatalf exactly
\* when sugar is nil; otherwise they end the process.
C22_FatalWithoutHandleIsNoOp ==
    [][LET NoOp == /\ phase' = "running"
                   /\ exit' = Nil
                   /\ ret' = Void
                   /\ written' = <<>>
                   /\ UNCHANGED facade
       IN /\ op' = "Fatal"
                => IF logger = Nil THEN NoOp ELSE phase' = "exited"
          /\ op' = "Fatalf"
                => IF sugar = Nil THEN NoOp ELSE phase' = "exited"]_vars

C22_Witness ==
    /\ op = "Fatal"
    /\ phase = "running"
    /\ exit = Nil
    /\ logger = Nil
    /\ sugar # Nil
    /\ written = <<>>

\* C23: the process ends only by a Fatal with logger active, a Fatalf with
\* sugar active, or a failed package init; Initialize (failing or not),
\* SetEnvironment, SetLevel, Sync, With, the getters and the non-fatal
\* logging calls leave the process running.
C23_OnlyFatalOrStartupTerminates ==
    [][/\ (phase' # phase /\ phase' # "running")
             => \/ op' = "init" /\ ret' # Nil
                \/ op' = "Fatal" /\ logger # Nil
                \/ op' = "Fatalf" /\ sugar # Nil
       /\ op' \in {"Initialize", "SetEnvironment", "SetLevel", "Sync"}
                     \cup HandleOps \cup NonFatalLoggingOps
             => (phase' = "running" /\ exit' = Nil)]_vars

C23_Witness ==
    /\ op = "SetEnvironment"
    /\ ret # Nil
    /\ phase = "running"
    /\ exit = Nil
    /\ logger = Nil

\* C24: a caller between Lock and Unlock (Initialize or SetLevel, which
\* take the same lock) holds mu exclusively: no other writer is inside its
\* critical section and no reader is inside its read-locked section.
C24_WritersExcludeEverything ==
    \A p \in Procs :
        pc[p] \in WriterCS
           => /\ mu.w = p
              /\ mu.readers = {}
              /\ \A q \in Procs \ {p} : pc[q] \notin WriterCS \cup ReaderCS

C24_Witness ==
    /\ pc[LevelSetter] = "raised"
    /\ pc[Initializer] = "idle"
    /\ left[Initializer] > 0
    /\ pc[1] = "idle"
    /\ left[1] > 0

\* C25: Initialize builds the engine before it takes the exclusive lock: a
\* build error happens while the caller holds no lock, and a caller holding
\* the lock has built its handle without error already.
C25_BuildsBeforeLocking ==
    /\ pc[Initializer] = "failed" => mu.w # Initializer
    /\ pc[Initializer] = "locked"
          => BuildError(ZapConfig(job[Initializer])) = Nil

\* C26: SetLevel changes the active handle in place: a reference taken from
\* GetLogger before the call is still the handle GetLogger returns after it,
\* and that reference, like a child taken from With, has the raised
\* minimum level afterwards.
C26_SetLevelMutatesInPlace ==
    [][(op' = "SetLevel" /\ logger # Nil /\ held # Nil)
          => /\ alias => (alias' /\ held' = logger')
             /\ held'.level = Max(held.level, arg'[1])]_vars

\* C27: SetLevel on an active handle changes nothing but the minimum level:
\* sinks, encoding and attached fields stay, sugar is the sugared form of the
\* new logger and currentEnv is unchanged.
C27_SetLevelChangesOnlyLevel ==
    [][(op' = "SetLevel" /\ logger # Nil)
          => /\ logger' # Nil
             /\ logger'.sinks = logger.sinks
             /\ logger'.encoding = logger.encoding
             /\ logger'.fields = logger.fields
             /\ sugar' = Sugar(logger')
             /\ currentEnv' = currentEnv]_vars

C27_Witness ==
    /\ op = "SetLevel"
    /\ arg = <<ErrorLevel>>
    /\ logger # Nil
    /\ logger.level = ErrorLevel
    /\ logger.sinks = <<"app.log", "stdout">>
    /\ logger.encoding = "console"
    /\ sugar = Sugar(logger)
    /\ currentEnv = Test

\* C28: right after a successful Initialize(cfg) the minimum level is
\* cfg.Level, whatever an earlier SetLevel had raised it to, and the active
\* handle is a newly built one, not the object a caller got from GetLogger
\* before.
C28_InitializeDiscardsSetLevel ==
    [][(op' = "Initialize" /\ ret' = Nil)
          => /\ logger' # Nil
             /\ logger'.level = arg'[1].Level
             /\ logger' = Build(ZapConfig(arg'[1]))
             /\ ~alias'
             /\ sugar' = Sugar(logger')]_vars

C28_Witness ==
    /\ op = "Initialize"
    /\ ret = Nil
    /\ held # Nil
    /\ held.level = ErrorLevel
    /\ held.encoding = "console"
    /\ held.fields = <<>>
    /\ logger # Nil
    /\ logger.level = DebugLevel
    /\ logger.encoding = "console"
    /\ ~alias

\* C29: the engine built by a successful Initialize(cfg) has minimum level
\* cfg.Level and encoding cfg.Encoding in every environment, and when
\* cfg.OutputPaths is not empty its sinks are cfg.OutputPaths in order, the
\* silent Test preset included.
C29_EngineBuiltFromConfig ==
    (op = "Initialize" /\ ret = Nil)
        => /\ logger # Nil
           /\ logger.level = arg[1].Level
           /\ logger.encoding = arg[1].Encoding
           /\ arg[1].OutputPaths # <<>> => logger.sinks = arg[1].OutputPaths

C29_Witness ==
    /\ op = "Initialize"
    /\ ret = Nil
    /\ arg[1].Environment = Test
    /\ arg[1].Encoding = "console"
    /\ arg[1].Level = DebugLevel
    /\ logger # Nil
    /\ logger.sinks = <<"app.log", "stdout">>

\* C30: Initialize returns an error exactly when the engine's build fails,
\* the error wraps the engine's, and the process keeps running; the logging
\* calls and SetLevel return nothing, and With and the getters return a
\* handle or nil, never an error.
C30_ErrorsAreReturnedValues ==
    [][/\ op' = "Initialize"
             => LET err == BuildError(ZapConfig(arg'[1]))
                IN /\ ret' # Nil <=> err # Nil
                   /\ ret' # Nil
                         => /\ ret'.kind = "error"
                            /\ ret'.cause = err.msg
                            /\ phase' = "running"
                            /\ exit' = Nil
       /\ op' \in NonFatalLoggingOps \cup {"Fatal", "Fatalf", "SetLevel"}
             => ret' = Void
       /\ op' \in HandleOps
             => ret' = Nil \/ ret'.kind \in {"Logger", "SugaredLogger"}]_vars

C30_Witness ==
    /\ op = "Initialize"
    /\ ret # Nil
    /\ ret.kind = "error"
    /\ ret.cause = "no encoder registered"
    /\ phase = "running"
    /\ exit = Nil

\* C31: in every state logger is nil exactly when sugar is nil, and a
\* non-nil sugar is the sugared form of the current logger, so the
\* structured and the printf form of a level forward to the same engine or
\* both do nothing.
C31_LoggerAndSugarPaired ==
    /\ logger = Nil <=> sugar = Nil
    /\ sugar # Nil => sugar = Sugar(logger)

\* C32: a handle a caller kept from GetLogger or With is changed by no
\* later facade operation, a successful Initialize included: entries logged
\* through it are written by its own level, to its own sinks, with its own
\* fields, whatever the facade's current handle is.
C32_KeptHandleStaysOnOldEngine ==
    [][/\ op' \notin {"GetLogger", "With", "WithFields"} => held' = held
       /\ (op' = "held.Info" /\ held # Nil)
             => /\ Len(written') =
                      IF InfoLevel < held.level THEN 0 ELSE Len(held.sinks)
                /\ \A i \in 1 .. Len(written') :
                      /\ written'[i].sink = held.sinks[i]
                      /\ written'[i].fields = held.fields \o arg'[2]]_vars

C32_Witness ==
    /\ op = "held.Info"
    /\ held # Nil
    /\ held.level = DebugLevel
    /\ held.sinks = <<"stdout">>
    /\ Len(held.fields) = 1
    /\ logger # Nil
    /\ logger.level = ErrorLevel
    /\ logger.sinks = <<>>
    /\ currentEnv = Test
    /\ Len(written) = 1
    /\ written[1].sink = "stdout"

\* C33: GetLogger, GetSugar, Sync, With, WithFields and the non-fatal
\* logging calls leave logger, sugar and currentEnv as they were; they are
\* assigned only by Initialize (the package init and SetEnvironment call it)
\* and SetLevel, and by the in-package test that clears the handles.
C33_ReadersLeaveFacadeUnchanged ==
    [][/\ op' \in {"Sync"} \cup HandleOps \cup NonFatalLoggingOps
             => UNCHANGED facade
       /\ facade' # facade
             => op' \in InitializeOps \cup {"SetLevel", "TestNilLoggerHandling"}]_vars

C33_Witness ==
    /\ op = "With"
    /\ ret # Nil
    /\ Len(ret.fields) = 1
    /\ logger # Nil
    /\ logger.fields = <<>>
    /\ sugar = Sugar(logger)

\* C34: the lock is held exactly by the callers inside an operation: the
\* read side by the logging calls between RLock and RUnlock, the write side
\* by the one caller between Lock and Unlock (the error return of Initialize
\* included), a caller takes the lock only when it holds none, and when no
\* operation is in progress the lock is free.
C34_LocksBalanced ==
    /\ mu.readers = {p \in Loggers : pc[p] \in ReaderCS}
    /\ \A p \in Procs : mu.w = p <=> pc[p] \in WriterCS \cup {"waiting"}
    /\ mu.announced <=> mu.w # 0
    /\ (\A p \in Procs : pc[p] = "idle")
          => mu = [w |-> 0, announced |-> FALSE, readers |-> {}]

C34_Witness ==
    /\ \A p \in Procs : pc[p] = "idle"
    /\ mu = [w |-> 0, announced |-> FALSE, readers |-> {}]
    /\ logger = Nil
    /\ left[Initializer] < Calls(Initializer)
    /\ left[1] < Calls(1)
    /\ left[2] > 0

\* C35: in the lock-free version SetEnvironment(e) records e in env and
\* leaves logger as it is (after SetEnvironment(PRODUCTION) it is still the
\* development logger built by init); only init and SetDebugMode assign
\* logger, SetDebugMode assigns whatever the build returned (nil when it
\* failed, the error dropped), and a logging call on a nil logger panics.
C35_LegacySetEnvironmentOnlyRecords ==
    [][/\ op' = "SetEnvironment"
             => (legacyEnv' = arg'[1] /\ logger' = logger)
       /\ logger' # logger => op' \in {"init", "SetDebugMode"}
       /\ op' = "SetDebugMode"
             => /\ phase' = "running"
                /\ buildFault => logger' = Nil
                /\ ~buildFault
                      => /\ logger' # Nil
                         /\ logger'.level = IF arg'[1] THEN DebugLevel
                                             ELSE InfoLevel
       /\ (op' \in {"Debug", "Info", "Warn", "Fatal"} /\ logger = Nil)
             => phase' = "panicked"]_vars

C35_Witness ==
    /\ op = "SetEnvironment"
    /\ arg = <<PRODUCTION>>
    /\ legacyEnv = PRODUCTION
    /\ logger # Nil
    /\ logger.level = DebugLevel
    /\ logger.encoding = "console"
====
